---- MODULE Spec2Model ----
(***************************************************************************)
(* Model of research&dl/code.cpp: the health-band sketch for the ESP32-S2. *)
(* setup() initialises the OLED and the MPU6050 and halts if either fails; *)
(* loop() reads the finger switch, updates the simulated heart rate,       *)
(* classifies the acceleration magnitude, reads the ECG pin and redraws    *)
(* the display, then sleeps 100 ms.                                        *)
(*                                                                         *)
(* Time.  millis() is an unsigned long (32 bits on the ESP32-S2) and       *)
(* lastBPMUpdate is a long (32 bits, signed).  TLC's integers are 32-bit   *)
(* signed, so an unsigned long is kept as two limbs <<hi, lo>> standing    *)
(* for hi * 2^30 + lo with hi \in 0..3, and a long is a plain integer.     *)
(*                                                                         *)
(* Acceleration.  The three components are kept in tenths of m/s^2 and the *)
(* magnitude by its square (sqrt is monotone), so that 9.7, 9.9 and 11.0   *)
(* are exact; float rounding is not modelled.                              *)
(***************************************************************************)
EXTENDS Integers, Sequences, FiniteSets, TLC

VARIABLES
    pc,              \* position of the single thread of control
    clock,           \* the millisecond counter behind millis(), an unsigned long
    wrapped,         \* history: the millisecond counter has overflowed 2^32
    ticks,           \* history: iterations of loop() (or of a halt loop) started
    displayOk,       \* history: display.begin() succeeded
    mpuOk,           \* history: mpu.begin() succeeded
    fingerDetected,  \* global bool fingerDetected
    simulatedBPM,    \* global int simulatedBPM
    lastBPMUpdate,   \* global long lastBPMUpdate
    activityStatus,  \* global String activityStatus
    accel,           \* local a.acceleration of this tick, <<x, y, z>> in tenths
    ecgValue,        \* local ecgValue of this tick
    buffer,          \* the display driver's frame buffer: what was drawn since the last clear
    cursor,          \* the display driver's text cursor <<x, y>>
    textSize,        \* the display driver's text size
    shown,           \* the frame last committed by display.display()
    trace,           \* history: the stages of the current tick that have run, in order
    stale,           \* history: the buffer holds content drawn before this tick's clear
    prevFinger,      \* history: fingerDetected at the end of the previous tick
    prevBPM,         \* history: simulatedBPM when this tick's vital-sign stage began
    prevLast,        \* history: lastBPMUpdate when this tick's vital-sign stage began
    nowCmp,          \* history: the millis() reading compared at line 77
    nowSet,          \* history: the millis() reading stored at line 78
    randCalls        \* history: calls of random() made by this tick

vars == <<pc, clock, wrapped, ticks, displayOk, mpuOk, fingerDetected, simulatedBPM,
          lastBPMUpdate, activityStatus, accel, ecgValue, buffer, cursor, textSize,
          shown, trace, stale, prevFinger, prevBPM, prevLast, nowCmp, nowSet, randCalls>>

(***************************************************************************)
(* Bounds of the model.                                                    *)
(***************************************************************************)
\* iterations of loop() (or of a halt loop) a behaviour may start
MaxTicks == 3

(***************************************************************************)
(* 32-bit arithmetic.                                                      *)
(***************************************************************************)
TwoTo30 == 2^30

U32Zero == <<0, 0>>

\* u + n modulo 2^32, for an unsigned long u and 0 <= n < 2^31
AddU32(u, n) ==
    LET s == u[2] + (n % TwoTo30)
    IN  <<(u[1] + (n \div TwoTo30) + (s \div TwoTo30)) % 4, s % TwoTo30>>

\* the addition u + n carries out of 32 bits
CarryU32(u, n) ==
    LET s == u[2] + (n % TwoTo30)
    IN  u[1] + (n \div TwoTo30) + (s \div TwoTo30) >= 4

\* a - b modulo 2^32 (unsigned long subtraction)
SubU32(a, b) ==
    LET d == a[2] - b[2]
        borrow == IF d < 0 THEN 1 ELSE 0
    IN  <<(a[1] - b[1] - borrow + 8) % 4, IF d < 0 THEN d + TwoTo30 ELSE d>>

\* u > n and u < n, for an unsigned long u and an int constant 0 <= n < 2^30
GtU32(u, n) == u[1] > 0 \/ u[2] > n
LtU32(u, n) == u[1] = 0 /\ u[2] < n

\* unsigned long -> long: the same 32 bits read as two's complement
ToLong(u) ==
    IF u[1] < 2 THEN u[1] * TwoTo30 + u[2] ELSE (u[1] - 4) * TwoTo30 + u[2]

\* long -> unsigned long: the usual arithmetic conversion of the left operand of line 77
ToULong(l) ==
    IF l >= 0
    THEN <<l \div TwoTo30, l % TwoTo30>>
    ELSE LET m == (l + TwoTo30) + TwoTo30
         IN  <<2 + (m \div TwoTo30), m % TwoTo30>>

(***************************************************************************)
(* Inputs.                                                                 *)
(***************************************************************************)
LOW  == 0
HIGH == 1
Levels == {LOW, HIGH}

\* time that may pass on top of a delay before control reaches the next
\* statement: none, 1900 ms, or 2^30 ms, which stands for a long stretch of uptime
\* (the code sets no upper limit on the time between two readings of millis())
WorkTimes == {0, 1900, TwoTo30}

\* acceleration samples, in tenths of m/s^2
AccelSamples ==
    { <<0, 0, 96>>, <<0, 0, 97>>, <<0, 0, 98>>, <<0, 0, 99>>, <<0, 66, 88>>,
      <<0, 0, 111>> }

\* samples of the analog pin
EcgSamples == {0, 512}

(***************************************************************************)
(* The vital-sign stage, lines 76-83.                                      *)
(***************************************************************************)
BPMInterval == 2000
BPMLow  == 68
BPMHigh == 85

\* random(lo, hi) returns a value of lo .. hi - 1; the model draws the two ends
\* of that range and its middle
RandomRange(lo, hi) == {lo, (lo + hi) \div 2, hi - 1}

\* mutant of IntervalElapsed: the interval test written >= 2000
IntervalElapsed_AtLeast(now, last) ==
    ~LtU32(SubU32(now, ToULong(last)), BPMInterval)

\* mutant of IntervalElapsed: the interval written 200 for 2000
IntervalElapsed_Short(now, last) ==
    GtU32(SubU32(now, ToULong(last)), BPMInterval \div 10)

\* line 77: millis() - lastBPMUpdate > 2000, computed in unsigned long
IntervalElapsed(now, last) == GtU32(SubU32(now, ToULong(last)), BPMInterval)

\* mutant of UpdateVital: the else branch of line 81 is missing
UpdateVital_NoReset(finger, t1, t2, r, bpm, last) ==
    IF finger /\ GtU32(SubU32(t1, ToULong(last)), BPMInterval)
    THEN [bpm |-> r, last |-> ToLong(t2), calls |-> 1]
    ELSE [bpm |-> bpm, last |-> last, calls |-> 0]

\* mutant of UpdateVital: the else branch of line 81 also restarts the interval
UpdateVital_ResetStamp(finger, t1, t2, r, bpm, last) ==
    IF finger
    THEN IF GtU32(SubU32(t1, ToULong(last)), BPMInterval)
         THEN [bpm |-> r, last |-> ToLong(t2), calls |-> 1]
         ELSE [bpm |-> bpm, last |-> last, calls |-> 0]
    ELSE [bpm |-> 0, last |-> ToLong(t1), calls |-> 0]

\* mutant of UpdateVital: the time gate of line 77 is missing
UpdateVital_NoGate(finger, t1, t2, r, bpm, last) ==
    IF finger
    THEN [bpm |-> r, last |-> ToLong(t2), calls |-> 1]
    ELSE [bpm |-> 0, last |-> last, calls |-> 0]

\* lines 76-83 as a function of the presence flag, the two millis() readings
\* t1 (line 77) and t2 (line 78), the value r that random() would return, and
\* the state before; calls is the number of calls of random() made
UpdateVital(finger, t1, t2, r, bpm, last) ==
    IF finger
    THEN IF IntervalElapsed(t1, last)
         THEN [bpm |-> r, last |-> ToLong(t2), calls |-> 1]
         ELSE [bpm |-> bpm, last |-> last, calls |-> 0]
    ELSE [bpm |-> 0, last |-> last, calls |-> 0]

(***************************************************************************)
(* The activity classifier, lines 88-92.                                   *)
(***************************************************************************)
\* the thresholds 11.0, 9.9 and 9.7 in tenths
ActiveAbove  == 110
RestingBelow == 99
RestingAbove == 97

Sq(x) == x * x

\* line 88, squared: sq(x) + sq(y) + sq(z)
TotalAccelSq(a) == Sq(a[1]) + Sq(a[2]) + Sq(a[3])

\* mutant of Classify: the comparison of line 90 written >=
Classify_Inclusive(m2) ==
    IF m2 >= Sq(ActiveAbove) THEN "Active"
    ELSE IF m2 < Sq(RestingBelow) /\ m2 > Sq(RestingAbove) THEN "Resting"
    ELSE "Moving"

\* lines 90-92, on the squared magnitude
Classify(m2) ==
    IF m2 > Sq(ActiveAbove) THEN "Active"
    ELSE IF m2 < Sq(RestingBelow) /\ m2 > Sq(RestingAbove) THEN "Resting"
    ELSE "Moving"

(***************************************************************************)
(* The display driver, as far as the sketch uses it.  A display state is a *)
(* record [buf, cur, size]; text is drawn at the cursor in the 6x8 font.   *)
(***************************************************************************)
CharW == 6
CharH == 8

Digit(d) ==
    CASE d = 0 -> "0" [] d = 1 -> "1" [] d = 2 -> "2" [] d = 3 -> "3" [] d = 4 -> "4"
      [] d = 5 -> "5" [] d = 6 -> "6" [] d = 7 -> "7" [] d = 8 -> "8" [] d = 9 -> "9"

RECURSIVE DecDigits(_)
DecDigits(n) == IF n < 10 THEN Digit(n) ELSE DecDigits(n \div 10) \o Digit(n % 10)

\* print(int): the decimal text of n
DecString(n) == IF n < 0 THEN "-" \o DecDigits(0 - n) ELSE DecDigits(n)

\* mutant of ClearDisplay: the buffer is not cleared
ClearDisplay_Keep(buf) == buf

ClearDisplay(buf) == << >>

SetCursor(d, x, y) == [d EXCEPT !.cur = <<x, y>>]

SetTextSize(d, n) == [d EXCEPT !.size = n]

DisplayPrint(d, s) ==
    [d EXCEPT !.buf = Append(@, [op |-> "text", x |-> d.cur[1], y |-> d.cur[2],
                                  w |-> CharW * d.size * Len(s), h |-> CharH * d.size,
                                  text |-> s]),
              !.cur = <<d.cur[1] + CharW * d.size * Len(s), d.cur[2]>>]

DisplayPrintln(d, s) ==
    [DisplayPrint(d, s) EXCEPT !.cur = <<0, d.cur[2] + CharH * d.size>>]

DrawLine(d, x0, y0, x1, y1) ==
    [d EXCEPT !.buf = Append(@, [op |-> "line", x |-> x0, y |-> y0,
                                  w |-> x1 - x0, h |-> y1 - y0, text |-> ""])]

\* lines 101-103
DrawHeader(d) ==
    DrawLine(DisplayPrintln(SetCursor(d, 0, 0), "HEALTH MONITOR"), 0, 10, 128, 10)

\* lines 107-117
DrawData(d, bpm, status, ecg) ==
    LET d1 == DisplayPrint(DisplayPrint(SetCursor(d, 0, 15), "BPM: "), DecString(bpm))
        d2 == DisplayPrint(DisplayPrint(SetCursor(d1, 0, 27), "Status: "), status)
    IN  DisplayPrint(DisplayPrint(SetCursor(d2, 0, 39), "ECG: "), DecString(ecg))

\* lines 120-124
DrawWarning(d) ==
    LET d1 == DisplayPrintln(SetTextSize(SetCursor(d, 10, 25), 1), "NO FINGER")
    IN  DisplayPrintln(SetCursor(d1, 10, 35), "DETECTED")

\* mutant of DrawFrame: the test of line 105 is missing, the data is always drawn
DrawFrame_NoBranch(d, finger, bpm, status, ecg) ==
    DrawData(DrawHeader(d), bpm, status, ecg)

\* lines 101-125
DrawFrame(d, finger, bpm, status, ecg) ==
    IF finger THEN DrawData(DrawHeader(d), bpm, status, ecg)
    ELSE DrawWarning(DrawHeader(d))

\* lines 58-61
DrawReady(d) ==
    DisplayPrintln(SetTextSize([d EXCEPT !.buf = ClearDisplay(@)], 1), "System Ready")

(***************************************************************************)
(* Control flow.                                                           *)
(***************************************************************************)
\* mutant of AfterBegin: the failure is reported but setup() goes on
AfterBegin_FallThrough(ok, next, halt) == next

\* lines 41-44 and 47-50: a failed begin() enters the halt loop
AfterBegin(ok, next, halt) == IF ok THEN next ELSE halt

\* the order of the statements of loop(), lines 69-128
NextStage(stage) ==
    CASE stage = "read_finger" -> "vital"
      [] stage = "vital"       -> "motion"
      [] stage = "motion"      -> "ecg"
      [] stage = "ecg"         -> "clear"
      [] stage = "clear"       -> "draw"
      [] stage = "draw"        -> "commit"
      [] stage = "commit"      -> "delay"
      [] stage = "delay"       -> "read_finger"

\* time passes: the millisecond counter advances by n
Elapse(n) ==
    /\ clock' = AddU32(clock, n)
    /\ wrapped' = (wrapped \/ CarryU32(clock, n))

\* delay(ms) returns after ms milliseconds; the work around it takes w more
Delay(ms) == \E w \in WorkTimes : Elapse(ms + w)

(***************************************************************************)
(* The program.                                                            *)
(***************************************************************************)
AllStages == <<"read_finger", "vital", "motion", "ecg", "clear", "draw", "commit", "delay">>

LoopStages == {AllStages[i] : i \in 1..Len(AllStages)}

HaltStates == {"halt_display", "halt_mpu"}

NoAccel == <<0, 0, 0>>

\* the display driver's state as a record, and back
Disp == [buf |-> buffer, cur |-> cursor, size |-> textSize]

\* lines 26-33: the globals after construction, at power-on
Init ==
    /\ pc = "setup_display"
    /\ clock = U32Zero
    /\ wrapped = FALSE
    /\ ticks = 0
    /\ displayOk = FALSE
    /\ mpuOk = FALSE
    /\ fingerDetected = FALSE
    /\ simulatedBPM = 0
    /\ lastBPMUpdate = 0
    /\ activityStatus = "Idle"
    /\ accel = NoAccel
    /\ ecgValue = 0
    /\ buffer = << >>
    /\ cursor = <<0, 0>>
    /\ textSize = 1
    /\ shown = << >>
    /\ trace = << >>
    /\ stale = FALSE
    /\ prevFinger = FALSE
    /\ prevBPM = 0
    /\ prevLast = 0
    /\ nowCmp = U32Zero
    /\ nowSet = U32Zero
    /\ randCalls = 0

\* lines 36-44: display.begin()
SetupDisplay ==
    /\ pc = "setup_display"
    /\ \E ok \in BOOLEAN :
          /\ displayOk' = ok
          /\ pc' = AfterBegin(ok, "setup_mpu", "halt_display")
    /\ UNCHANGED <<clock, wrapped, ticks, mpuOk, fingerDetected, simulatedBPM,
                   lastBPMUpdate, activityStatus, accel, ecgValue, buffer, cursor,
                   textSize, shown, trace, stale, prevFinger, prevBPM, prevLast,
                   nowCmp, nowSet, randCalls>>

\* line 43: for(;;); one more millisecond spent spinning
HaltDisplay ==
    /\ pc = "halt_display"
    /\ ticks < MaxTicks
    /\ ticks' = ticks + 1
    /\ Elapse(1)
    /\ UNCHANGED <<pc, displayOk, mpuOk, fingerDetected, simulatedBPM, lastBPMUpdate,
                   activityStatus, accel, ecgValue, buffer, cursor, textSize, shown,
                   trace, stale, prevFinger, prevBPM, prevLast, nowCmp, nowSet,
                   randCalls>>

\* lines 47-50: mpu.begin()
SetupMpu ==
    /\ pc = "setup_mpu"
    /\ \E ok \in BOOLEAN :
          /\ mpuOk' = ok
          /\ pc' = AfterBegin(ok, "setup_ready", "halt_mpu")
    /\ UNCHANGED <<clock, wrapped, ticks, displayOk, fingerDetected, simulatedBPM,
                   lastBPMUpdate, activityStatus, accel, ecgValue, buffer, cursor,
                   textSize, shown, trace, stale, prevFinger, prevBPM, prevLast,
                   nowCmp, nowSet, randCalls>>

\* line 49: while (1) delay(10); one iteration
HaltMpu ==
    /\ pc = "halt_mpu"
    /\ ticks < MaxTicks
    /\ ticks' = ticks + 1
    /\ Delay(10)
    /\ UNCHANGED <<pc, displayOk, mpuOk, fingerDetected, simulatedBPM, lastBPMUpdate,
                   activityStatus, accel, ecgValue, buffer, cursor, textSize, shown,
                   trace, stale, prevFinger, prevBPM, prevLast, nowCmp, nowSet,
                   randCalls>>

\* lines 51-63: the splash frame, then delay(1000)
SetupReady ==
    /\ pc = "setup_ready"
    /\ LET d == DrawReady(Disp)
       IN  /\ buffer' = d.buf
           /\ cursor' = d.cur
           /\ textSize' = d.size
           /\ shown' = d.buf
    /\ Delay(1000)
    /\ pc' = "read_finger"
    /\ UNCHANGED <<ticks, displayOk, mpuOk, fingerDetected, simulatedBPM, lastBPMUpdate,
                   activityStatus, accel, ecgValue, trace, stale, prevFinger, prevBPM,
                   prevLast, nowCmp, nowSet, randCalls>>

\* lines 69-73: the first statement of loop()
ReadFinger ==
    /\ pc = "read_finger"
    /\ ticks < MaxTicks
    /\ ticks' = ticks + 1
    /\ \E level \in Levels : fingerDetected' = (level = HIGH)
    /\ prevFinger' = fingerDetected
    /\ trace' = <<"read_finger">>
    /\ stale' = (buffer # << >>)
    /\ pc' = NextStage(pc)
    /\ UNCHANGED <<clock, wrapped, displayOk, mpuOk, simulatedBPM, lastBPMUpdate,
                   activityStatus, accel, ecgValue, buffer, cursor, textSize, shown,
                   prevBPM, prevLast, nowCmp, nowSet, randCalls>>

\* lines 76-83; the millisecond counter may tick between the two calls of millis()
Vital ==
    /\ pc = "vital"
    /\ \E r \in RandomRange(BPMLow, BPMHigh), tickover \in {0, 1} :
          LET t1 == clock
              t2 == IF fingerDetected /\ IntervalElapsed(t1, lastBPMUpdate)
                    THEN AddU32(clock, tickover) ELSE clock
              v  == UpdateVital(fingerDetected, t1, t2, r, simulatedBPM, lastBPMUpdate)
          IN  /\ simulatedBPM' = v.bpm
              /\ lastBPMUpdate' = v.last
              /\ randCalls' = v.calls
              /\ nowCmp' = t1
              /\ nowSet' = t2
              /\ clock' = t2
              /\ wrapped' = (wrapped \/ (t2 # t1 /\ CarryU32(clock, tickover)))
    /\ prevBPM' = simulatedBPM
    /\ prevLast' = lastBPMUpdate
    /\ trace' = Append(trace, pc)
    /\ pc' = NextStage(pc)
    /\ UNCHANGED <<ticks, displayOk, mpuOk, fingerDetected, activityStatus, accel,
                   ecgValue, buffer, cursor, textSize, shown, stale, prevFinger>>

\* lines 86-92
Motion ==
    /\ pc = "motion"
    /\ \E a \in AccelSamples :
          /\ accel' = a
          /\ activityStatus' = Classify(TotalAccelSq(a))
    /\ trace' = Append(trace, pc)
    /\ pc' = NextStage(pc)
    /\ UNCHANGED <<clock, wrapped, ticks, displayOk, mpuOk, fingerDetected, simulatedBPM,
                   lastBPMUpdate, ecgValue, buffer, cursor, textSize, shown, stale,
                   prevFinger, prevBPM, prevLast, nowCmp, nowSet, randCalls>>

\* line 95
ReadEcg ==
    /\ pc = "ecg"
    /\ \E e \in EcgSamples : ecgValue' = e
    /\ trace' = Append(trace, pc)
    /\ pc' = NextStage(pc)
    /\ UNCHANGED <<clock, wrapped, ticks, displayOk, mpuOk, fingerDetected, simulatedBPM,
                   lastBPMUpdate, activityStatus, accel, buffer, cursor, textSize, shown,
                   stale, prevFinger, prevBPM, prevLast, nowCmp, nowSet, randCalls>>

\* line 98
Clear ==
    /\ pc = "clear"
    /\ buffer' = ClearDisplay(buffer)
    /\ stale' = (buffer' # << >>)
    /\ trace' = Append(trace, pc)
    /\ pc' = NextStage(pc)
    /\ UNCHANGED <<clock, wrapped, ticks, displayOk, mpuOk, fingerDetected, simulatedBPM,
                   lastBPMUpdate, activityStatus, accel, ecgValue, cursor, textSize,
                   shown, prevFinger, prevBPM, prevLast, nowCmp, nowSet, randCalls>>

\* lines 101-125
Draw ==
    /\ pc = "draw"
    /\ LET d == DrawFrame(Disp, fingerDetected, simulatedBPM, activityStatus, ecgValue)
       IN  /\ buffer' = d.buf
           /\ cursor' = d.cur
           /\ textSize' = d.size
    /\ trace' = Append(trace, pc)
    /\ pc' = NextStage(pc)
    /\ UNCHANGED <<clock, wrapped, ticks, displayOk, mpuOk, fingerDetected, simulatedBPM,
                   lastBPMUpdate, activityStatus, accel, ecgValue, shown, stale,
                   prevFinger, prevBPM, prevLast, nowCmp, nowSet, randCalls>>

\* line 127
Commit ==
    /\ pc = "commit"
    /\ shown' = buffer
    /\ trace' = Append(trace, pc)
    /\ pc' = NextStage(pc)
    /\ UNCHANGED <<clock, wrapped, ticks, displayOk, mpuOk, fingerDetected, simulatedBPM,
                   lastBPMUpdate, activityStatus, accel, ecgValue, buffer, cursor,
                   textSize, stale, prevFinger, prevBPM, prevLast, nowCmp, nowSet,
                   randCalls>>

\* line 128, and the end of the scope of the locals of loop() (the history of the
\* tick's vital-sign stage is dropped with them)
EndDelay ==
    /\ pc = "delay"
    /\ Delay(100)
    /\ accel' = NoAccel
    /\ ecgValue' = 0
    /\ prevBPM' = 0
    /\ prevLast' = 0
    /\ nowCmp' = U32Zero
    /\ nowSet' = U32Zero
    /\ randCalls' = 0
    /\ trace' = Append(trace, pc)
    /\ pc' = NextStage(pc)
    /\ UNCHANGED <<ticks, displayOk, mpuOk, fingerDetected, simulatedBPM, lastBPMUpdate,
                   activityStatus, buffer, cursor, textSize, shown, stale, prevFinger>>

Next ==
    \/ SetupDisplay
    \/ HaltDisplay
    \/ SetupMpu
    \/ HaltMpu
    \/ SetupReady
    \/ ReadFinger
    \/ Vital
    \/ Motion
    \/ ReadEcg
    \/ Clear
    \/ Draw
    \/ Commit
    \/ EndDelay

Spec == Init /\ [][Next]_vars

(***************************************************************************)
(* Properties.                                                             *)
(***************************************************************************)
\* the vital-sign stage of the current tick has run; its history is valid
AfterVital == pc \in {"motion", "ecg", "clear", "draw", "commit", "delay"}

\* the classifier of the current tick has run
AfterMotion == pc \in {"ecg", "clear", "draw", "commit", "delay"}

\* millis() - lastBPMUpdate as line 77 of the current tick computed it
Elapsed == SubU32(nowCmp, ToULong(prevLast))

\* the vital-sign stage of the current tick drew a new value and stamped it
Regenerated ==
    /\ randCalls = 1
    /\ simulatedBPM >= 68 /\ simulatedBPM < 85
    /\ ToULong(lastBPMUpdate) = nowSet

\* the vital-sign stage of the current tick left the value and the stamp alone
Retained ==
    /\ randCalls = 0
    /\ simulatedBPM = prevBPM
    /\ lastBPMUpdate = prevLast

\* C1: at the end of the vital-sign stage of a tick on which the presence input
\* read not-HIGH, simulatedBPM is 0, whatever it was before and whatever the time.
C1_NoFingerZero == (AfterVital /\ ~fingerDetected) => simulatedBPM = 0

\* C1 witness: the first tick without presence after a tick with presence, on
\* which a nonzero value was cached and has been forced to 0.
C1_Witness ==
    /\ AfterVital /\ ~fingerDetected /\ prevFinger
    /\ prevBPM # 0 /\ simulatedBPM = 0

\* C2 as stated: on a tick with presence on which at least 2000 ms have elapsed
\* (2000 ms exactly included), a new value of 68..84 is drawn and stored and the
\* timestamp is set to the current time.
C2_RegenAtLeastInterval ==
    (AfterVital /\ fingerDetected /\ ~LtU32(Elapsed, 2000)) => Regenerated

\* C2 amended: on a tick with presence on which more than 2000 ms have elapsed a
\* new value of 68..84 is drawn and stored and the timestamp is set to the
\* current millis() reading; at exactly 2000 ms nothing is drawn or changed.
C2_RegenAfterInterval ==
    /\ (AfterVital /\ fingerDetected /\ GtU32(Elapsed, 2000)) => Regenerated
    /\ (AfterVital /\ fingerDetected /\ Elapsed = <<0, 2000>>) => Retained

\* C2 witness: a regeneration 2001 ms or more after the previous one, which
\* replaced a cached value and moved the timestamp.
C2_Witness ==
    /\ AfterVital /\ fingerDetected /\ GtU32(Elapsed, 2000)
    /\ prevLast # 0 /\ prevBPM # 0
    /\ Regenerated /\ lastBPMUpdate # prevLast

\* C3: on a tick with presence on which fewer than 2000 ms have elapsed since
\* the last regeneration, random() is not called and simulatedBPM and
\* lastBPMUpdate keep their values of the end of the previous tick.
C3_RetainWithinInterval ==
    (AfterVital /\ fingerDetected /\ LtU32(Elapsed, 2000)) => Retained

\* C3 witness: a tick with presence less than 2000 ms after a regeneration, with
\* the regenerated value still cached.
C3_Witness ==
    /\ AfterVital /\ fingerDetected /\ LtU32(Elapsed, 2000)
    /\ prevLast # 0 /\ prevBPM >= 68
    /\ Retained

\* C4: the label of a tick is Active iff the magnitude is above 11.0, Resting
\* iff it lies strictly between 9.7 and 9.9, Moving in every other case; it is
\* one of the three and a function of this tick's magnitude alone.
C4_Classification ==
    AfterMotion =>
        LET m2 == TotalAccelSq(accel)
        IN  /\ activityStatus \in {"Active", "Resting", "Moving"}
            /\ (activityStatus = "Active") <=> (m2 > 110 * 110)
            /\ (activityStatus = "Resting") <=> (m2 > 97 * 97 /\ m2 < 99 * 99)
            /\ (activityStatus = "Moving") <=>
                  (m2 <= 97 * 97 \/ (m2 >= 99 * 99 /\ m2 <= 110 * 110))

\* C4 witness: a magnitude of exactly 11.0 off the axes, labelled Moving.
C4_Witness ==
    /\ AfterMotion
    /\ accel = <<0, 66, 88>>
    /\ activityStatus = "Moving"

\* C5: a tick without presence leaves lastBPMUpdate alone and forces simulatedBPM
\* to 0; lastBPMUpdate changes only in the vital-sign stage of a tick with
\* presence, so that it survives any run of ticks without presence.
C5_StampKeptWithoutFinger ==
    /\ []((AfterVital /\ ~fingerDetected) => (lastBPMUpdate = prevLast /\ simulatedBPM = 0))
    /\ [][lastBPMUpdate' # lastBPMUpdate => (pc = "vital" /\ fingerDetected)]_vars

\* C5 witness: the second of two consecutive ticks without presence after a
\* regeneration, the timestamp of the regeneration still in place.
C5_Witness ==
    /\ AfterVital /\ ~fingerDetected /\ ~prevFinger /\ ticks >= 3
    /\ lastBPMUpdate # 0 /\ lastBPMUpdate = prevLast /\ simulatedBPM = 0

\* the current tick is the first with presence after a tick without
Reentry == AfterVital /\ fingerDetected /\ ~prevFinger /\ ticks >= 2

\* C6 as stated: on the first tick with presence after ticks without, a new
\* value of 68..84 is drawn and the timestamp is set, so the value is not 0.
C6_ReentryRegenerates == Reentry => (Regenerated /\ simulatedBPM # 0)

\* C6 amended: on the first tick with presence after ticks without, a new value
\* is drawn and stamped if more than 2000 ms have elapsed since lastBPMUpdate;
\* otherwise nothing is drawn, the timestamp stays and the value stays 0.
C6_ReentryRegeneratesWhenDue ==
    Reentry => IF GtU32(Elapsed, 2000)
               THEN Regenerated /\ simulatedBPM # 0
               ELSE Retained /\ simulatedBPM = 0

\* C6 witness: presence true, false, true within less than 2000 ms of a
\* regeneration; on the third tick the value is still 0.
C6_Witness ==
    /\ Reentry /\ ticks >= 3
    /\ lastBPMUpdate # 0 /\ LtU32(Elapsed, 2000)
    /\ simulatedBPM = 0

\* the frame holds the text s
HasText(f, s) == \E i \in 1..Len(f) : f[i].op = "text" /\ f[i].text = s

\* the frame holds the label followed on its line by the value
FieldShows(f, label, value) ==
    \E i \in 1..(Len(f) - 1) :
        /\ f[i].op = "text" /\ f[i].text = label
        /\ f[i + 1].op = "text" /\ f[i + 1].text = value
        /\ f[i + 1].y = f[i].y /\ f[i + 1].x = f[i].x + f[i].w

HasHeader(f) ==
    /\ HasText(f, "HEALTH MONITOR")
    /\ \E i \in 1..Len(f) : f[i].op = "line" /\ f[i].y = 10 /\ f[i].h = 0

HasWarning(f) == HasText(f, "NO FINGER") \/ HasText(f, "DETECTED")

HasDataField(f) == HasText(f, "BPM: ") \/ HasText(f, "Status: ") \/ HasText(f, "ECG: ")

\* C7: the frame committed on a tick holds the header and the separator; without
\* presence it holds the two warning lines and no data field; with presence it
\* holds the three data fields showing this tick's simulatedBPM, label and
\* analog sample and no warning line.
C7_FrameLayout ==
    pc = "delay" =>
        /\ HasHeader(shown)
        /\ ~fingerDetected =>
              /\ HasText(shown, "NO FINGER") /\ HasText(shown, "DETECTED")
              /\ ~HasDataField(shown)
              /\ Len(shown) = 4
        /\ fingerDetected =>
              /\ FieldShows(shown, "BPM: ", DecString(simulatedBPM))
              /\ FieldShows(shown, "Status: ", activityStatus)
              /\ FieldShows(shown, "ECG: ", DecString(ecgValue))
              /\ ~HasWarning(shown)
              /\ Len(shown) = 8

\* C7 witness: presence, magnitude 9.8, analog sample 512, the value just
\* regenerated; the committed frame shows Resting, the value and 512.
C7_Witness ==
    /\ pc = "delay" /\ fingerDetected /\ randCalls = 1
    /\ accel = <<0, 0, 98>> /\ ecgValue = 512
    /\ FieldShows(shown, "Status: ", "Resting")
    /\ FieldShows(shown, "BPM: ", "76")
    /\ FieldShows(shown, "ECG: ", "512")

\* the state of the sketch that a halted program must leave alone
sketch == <<fingerDetected, simulatedBPM, lastBPMUpdate, activityStatus, accel,
            ecgValue, buffer, cursor, textSize, shown, trace>>

\* C8: a failed display.begin() or mpu.begin() enters a halt state that is never
\* left and in which no tick runs, no global changes and no frame is committed;
\* loop() runs only after both succeeded.
C8_InitFailureHalts ==
    /\ [](pc \in LoopStages => (displayOk /\ mpuOk))
    /\ [](pc = "halt_display" => ~displayOk)
    /\ [](pc = "halt_mpu" => ~mpuOk)
    /\ []((~displayOk /\ pc # "setup_display") => pc = "halt_display")
    /\ []((~mpuOk /\ pc \notin {"setup_display", "setup_mpu"}) => pc \in HaltStates)
    /\ [](pc \in HaltStates => (trace = << >> /\ shown = << >> /\ simulatedBPM = 0
                                  /\ lastBPMUpdate = 0 /\ ~fingerDetected))
    /\ [][(pc \in HaltStates) => (pc' = pc /\ sketch' = sketch)]_vars

\* C8 witness: the motion sensor failed and the halt loop has gone round twice.
C8_Witness ==
    /\ pc = "halt_mpu" /\ displayOk /\ ~mpuOk
    /\ ticks >= 2

\* the stages that have run when control is at the given stage
StagesBefore(stage) ==
    LET i == CHOOSE k \in 1..Len(AllStages) : AllStages[k] = stage
    IN  SubSeq(AllStages, 1, i - 1)

\* a frame drawn from nothing for the given values
FreshFrame(finger, bpm, status, ecg) ==
    DrawFrame([buf |-> << >>, cur |-> <<0, 0>>, size |-> 1], finger, bpm, status, ecg).buf

\* C9: a tick runs its stages once each in the fixed order, presence, vital
\* value, classification, analog read, clear, draw, commit, delay; the frame is
\* cleared before anything is drawn, the commit follows the drawing and is the
\* last display operation, and the committed frame holds nothing drawn on an
\* earlier tick.
C9_StageOrder ==
    /\ (pc \in LoopStages /\ pc # "read_finger") => trace = StagesBefore(pc)
    /\ (pc = "read_finger" /\ ticks > 0) => trace = AllStages
    /\ pc \in {"draw", "commit", "delay"} => ~stale
    /\ pc = "draw" => buffer = << >>
    /\ pc = "delay" =>
          /\ shown = buffer
          /\ shown = FreshFrame(fingerDetected, simulatedBPM, activityStatus, ecgValue)

\* C9 witness: the second or a later tick has committed a frame of the other
\* layout than the tick before it, whose frame was in the buffer at its start.
C9_Witness ==
    /\ pc = "delay" /\ ticks >= 2
    /\ fingerDetected # prevFinger
    /\ shown = FreshFrame(fingerDetected, simulatedBPM, activityStatus, ecgValue)

\* C10: simulatedBPM is 0 or a value of 68..84; while the clock readings do not
\* decrease, lastBPMUpdate never decreases, and when it changes it becomes the
\* clock reading of a tick with presence.
C10_ValueRanges ==
    /\ [](simulatedBPM = 0 \/ (simulatedBPM >= 68 /\ simulatedBPM <= 84))
    /\ [][~wrapped' =>
            /\ lastBPMUpdate' >= lastBPMUpdate
            /\ lastBPMUpdate' # lastBPMUpdate =>
                  /\ fingerDetected
                  /\ nowSet'[1] < 2
                  /\ lastBPMUpdate' = nowSet'[1] * TwoTo30 + nowSet'[2]]_vars

====
